---- MODULE Spec2Model ----
(***************************************************************************)
(* A model of crashreporter.CrashReporter: the report directory (the      *)
(* files crashreport01, crashreport02, ...), the crash handler installed  *)
(* as sys.excepthook, and the offline_reporter watcher thread.            *)
(*                                                                         *)
(* A report file is identified by its ordinal (the two digits of its      *)
(* name); its content is the number of the crash it reports (1 for the    *)
(* first crash handled, 2 for the second, ...), 0 meaning "no such file". *)
(* Ordinals stay below 100, so that sorted(glob(...)) is the numeric      *)
(* order and int(rpath[-2:]) is the ordinal.  The html flag is fixed, so  *)
(* that every report file has the same extension.                         *)
(*                                                                         *)
(* The main thread runs one operation at a time (enable, disable,         *)
(* start_watcher, stop_watcher, exception_handler); exception_handler is  *)
(* split at its blocking calls, because the watcher thread runs while it  *)
(* is in progress.                                                         *)
(*                                                                         *)
(* sys.excepthook and each instance's saved hook are part of the state;    *)
(* SpecHook lets other instances of the class call enable and disable.     *)
(* tools.analyze_traceback and tools.string_variable_lookup are modelled   *)
(* as they compute, under their own specifications SpecTb and SpecLookup.  *)
(***************************************************************************)
EXTENDS Integers, Sequences, FiniteSets, TLC

\* ------------------------------------------------------------------ bounds

\* CrashReporter.offline_report_limit (a class attribute the application sets).
offline_report_limit == 2

\* The number of crashes exception_handler handles in one run of the model.
MaxCrash == 4

\* The number of thread objects that can be alive at the same time.
MaxThreads == 2

\* The number of CrashReporter instances of the process.
MaxInst == 2

\* The longest stack given to analyze_traceback.
MaxFrames == 3

\* The highest inspection level given to analyze_traceback.
MaxLevel == 4

\* The longest expression given to string_variable_lookup, in steps.
MaxSteps == 3

\* The number of crashes handled in a run of the liveness specification.
MaxLiveCrash == 2
MaxRepr == 5
MaxStr == 14

\* The highest ordinal a report file can get: every crash raises it by at most one.
MaxOrd == MaxCrash + 1

Ords == 1..MaxOrd
Reports == 1..MaxCrash
Threads == 1..MaxThreads
NoFile == 0
NoThread == 0

\* The instances; Self is the reporter modelled in full, the others only call
\* enable() and disable(), on an empty report directory and with no watcher.
Insts == 1..MaxInst
Self == 1
Others == Insts \ {Self}

\* The values of sys.excepthook: the hook in place before any reporter is enabled,
\* None, or the exception_handler of an instance (the instance's number).
DefaultHook == 0
NoHook == -1
Hooks == {DefaultHook, NoHook} \cup Insts

VARIABLES
    files,            \* the report directory: ordinal -> report stored there, or NoFile
    crashes,          \* crashes handled so far; the report of the crash in hand
    mpc,              \* main thread: "idle", or its place in exception_handler
    hSmtp, hFtp,      \* exception_handler: the result of _sendmail / _ftp_submit
    result,           \* how the last exception_handler call ended
    active,           \* CrashReporter.active
    watcher_enabled,  \* self.watcher_enabled
    smtpCfg, ftpCfg,  \* self._smtp is not None / self._ftp is not None
    watcher,          \* self._watcher: a thread, or NoThread for None
    watcher_running,  \* self._watcher_running
    wpc,              \* each thread object's place in _watcher_thread, "none" if not alive
    wgs,              \* _watcher_thread: its local great_success
    got,              \* history: the sinks that have accepted each report
    failRun,          \* history: crashes stored since the empty store with every
                      \* delivery failed and nothing else touching the store; -1 if not so
    wDel,             \* history: delete_offline_reports ran during the handling in hand
    excepthook,       \* sys.excepthook
    saved,            \* each instance's self._excepthook
    prior,            \* history: sys.excepthook before the enable() that took effect last
    noop,             \* history: the last call of the main thread was an enable()
                      \* that found the reporter active
    frames,           \* analyze_traceback: the stack, outermost frame first; for each
                      \* frame, whether inspect.getsourcelines can read its source
    level,            \* the inspection level k (CrashReporter.inspection_level)
    tb_info,          \* the list analyze_traceback built
    tpc,              \* "idle", "ready", or how the analysis ended
    refs,             \* string_variable_lookup: the parsed steps of the expression
    lscope,           \* the value held by scope (its kind), at the end the result
    lpos,             \* the number of steps applied
    lpc,              \* "idle", "first", "step", "returned"
    lhist,            \* history: each step applied, with what it was applied to and
                      \* what the container had for it
    path,             \* history: the expression as written, its first identifier and
                      \* its steps; <<>> when the lookup is given parsed steps
    expr,             \* string_variable_lookup: its argument s, the text of the expression
    names,            \* the names and keys of the parsed steps, in step with refs
    fref,             \* format_reference: its argument ref (its repr, its length if it
                      \* is a list, tuple, set or dict)
    fmax,             \* format_reference: max_string_length
    vstr,             \* format_reference: the string vstr
    vout,             \* history: the string format_reference returned
    fpc,              \* "idle", "ready", "returned", "again"
    ppc,              \* CrashReportingProcess: the child's place in run(), or how
                      \* run() ended
    pipe,             \* the tuples sent on the process's pipe and not yet received
    sent,             \* history: the number of tuples the child has sent
    polled,           \* what the parent's last poll() returned
    before            \* history: the report directory when exception_handler was called

vars == <<files, crashes, mpc, hSmtp, hFtp, result, active, watcher_enabled,
          smtpCfg, ftpCfg, watcher, watcher_running, wpc, wgs,
          got, failRun, wDel, excepthook, saved, prior, noop,
          frames, level, tb_info, tpc, refs, lscope, lpos, lpc, lhist,
          path, expr, names, fref, fmax, vstr, vout, fpc, ppc, pipe, sent, polled, before>>

mainVars == <<crashes, mpc, hSmtp, hFtp, result>>
cfgVars == <<watcher_enabled, smtpCfg, ftpCfg>>
thrVars == <<watcher, watcher_running, wpc, wgs>>
hookVars == <<excepthook, saved, prior>>
tbVars == <<frames, level, tb_info, tpc>>
lookupVars == <<refs, lscope, lpos, lpc, lhist>>
parseVars == <<path, expr, names>>
fmtVars == <<fref, fmax, vstr, vout, fpc>>
procVars == <<ppc, pipe, sent, polled>>
frameVars == <<before>>
toolVars == <<tbVars, lookupVars, parseVars, fmtVars, procVars, frameVars>>

\* ------------------------------------------------------- the report store

RECURSIVE ListFrom(_, _)
\* The ordinals of the files of f from ordinal o on, ascending.
ListFrom(f, o) ==
    IF o > MaxOrd THEN <<>>
    ELSE IF f[o] # NoFile THEN <<o>> \o ListFrom(f, o + 1)
    ELSE ListFrom(f, o + 1)

\* _get_offline_reports: the report files, sorted by name.
get_offline_reports(f) == ListFrom(f, 1)

Stored(f) == {o \in Ords : f[o] # NoFile}
StoredReports(f) == {f[o] : o \in Stored(f)}
EmptyStore == [o \in Ords |-> NoFile]

RECURSIVE CopyUp(_, _, _)
\* The loop of _save_report: for the reports of list l from its i-th down to its
\* first, shutil.copy2(report, name of ordinal n + 1).
CopyUp(f, l, i) ==
    IF i = 0 THEN f
    ELSE CopyUp([f EXCEPT ![l[i] + 1] = f[l[i]]], l, i - 1)

\* os.remove(report) after the loop: report is the loop variable's last value, the
\* first report of the sorted list.
RemoveLast(f, l) == [f EXCEPT ![l[1]] = NoFile]

\* A limit test that lets one report more in.
AtLimitStrict(l) == Len(l) > offline_report_limit

\* len(offline_reports) >= self.offline_report_limit
AtLimit(l) == Len(l) >= offline_report_limit

\* glob.glob(... % (offline_report_limit + 1) + '*')[0] raises IndexError when no
\* file has that ordinal.
OldestMissing(f) == f[offline_report_limit + 1] = NoFile

\* The renumbering of _save_report, up to the point where it raises or goes on to
\* write the new report.
ShiftStore(f) ==
    LET l == get_offline_reports(f)
        g == RemoveLast(CopyUp(f, l, Len(l)), l)
    IN  IF l = <<>> THEN f
        ELSE IF AtLimit(l) /\ ~OldestMissing(g)
             THEN [g EXCEPT ![offline_report_limit + 1] = NoFile]
             ELSE g

\* _save_report raises in its renumbering.
ShiftRaises(f) ==
    LET l == get_offline_reports(f)
    IN  /\ l # <<>>
        /\ AtLimit(l)
        /\ OldestMissing(RemoveLast(CopyUp(f, l, Len(l)), l))

\* A writer that appends the new report after the stored ones.
WriteAppend(f, r) == [f EXCEPT ![Cardinality(Stored(f)) + 1] = r]

\* new_report_path is the file of ordinal 1; the new report is written there.
WriteNew(f, r) == [f EXCEPT ![1] = r]

\* delete_offline_reports: os.remove on every listed report.
DeleteAll(f) == EmptyStore

\* ------------------------------------------------------------------- sinks

\* What a server does with one submission.  smtpUp: the SMTP server accepts the
\* message.  ftpSt: the FTP server is "up", "down" (connect or login fails) or
\* "err" (the login works, the transfer raises).
FtpStates == {"up", "down", "err"}

\* _sendmail: every failure is caught and gives False.
sendmail(smtpUp) == smtpUp

\* _smtp_send_offline_reports: None (falsy) when there is no report.
smtp_send_offline_reports(f, smtpUp) ==
    get_offline_reports(f) # <<>> /\ sendmail(smtpUp)

\* _ftp_send_offline_reports, under the try/except of submit_offline_reports.
ftp_send_offline_reports(ftpSt) == ftpSt = "up"

\* submit_offline_reports(smtp=True, ftp=True): (smtp_success, ftp_success).
submit_offline_reports(f, smtpUp, ftpSt) ==
    <<smtpCfg /\ smtp_send_offline_reports(f, smtpUp),
      ftpCfg /\ ftp_send_offline_reports(ftpSt)>>

\* A test that wants every sink to have succeeded.
AllOf(pair) == pair[1] /\ pair[2]

\* any(...) of a result of submit_offline_reports.
AnyOf(pair) == pair[1] \/ pair[2]

\* ----------------------------------------------------------------- threads

Alive(t) == wpc[t] # "none"
InLoop(t) == wpc[t] \in {"sleep", "submit"}

\* The sinks named by a result (smtp_success, ftp_success).
Sinks == {"smtp", "ftp"}
Accepted(pair) == {s \in Sinks : (s = "smtp" /\ pair[1]) \/ (s = "ftp" /\ pair[2])}

\* got keeps the reports that are in the store f.
Clean(g, f) == [r \in Reports |-> IF r \in StoredReports(f) THEN g[r] ELSE {}]

\* got after a submission of the reports of set rs that the sinks of set ss accepted.
Receive(g, rs, ss) == [r \in Reports |-> IF r \in rs THEN g[r] \cup ss ELSE g[r]]
FreeThreads == {t \in Threads : ~Alive(t)}

\* stop_watcher, as a plain change of the flag.
StopFlag == IF watcher # NoThread THEN FALSE ELSE watcher_running

\* No reporter is enabled: the hook is the one of the process, and __init__ has
\* set every self._excepthook to None.
HooksInit ==
    /\ excepthook = DefaultHook
    /\ saved = [i \in Insts |-> NoHook]
    /\ prior = DefaultHook
    /\ noop = FALSE

\* No call of string_variable_lookup is in progress.
LookupIdle ==
    /\ refs = <<>>
    /\ lscope = "none"
    /\ lpos = 0
    /\ lpc = "idle"
    /\ lhist = <<>>

\* No call of analyze_traceback is in progress.
TbIdle ==
    /\ frames = <<>>
    /\ level = 0
    /\ tb_info = <<>>
    /\ tpc = "idle"

\* No expression is being parsed.
ParseIdle ==
    /\ path = <<>>
    /\ expr = <<>>
    /\ names = <<>>

\* No call of format_reference is in progress.
FmtIdle ==
    /\ fref = [repr |-> <<>>, length |-> -1]
    /\ fmax = 0
    /\ vstr = <<>>
    /\ vout = <<>>
    /\ fpc = "idle"

\* No CrashReportingProcess has been started.
ProcIdle ==
    /\ ppc = "none"
    /\ pipe = 0
    /\ sent = 0
    /\ polled = "none"

\* No report directory has been recorded.
FrameIdle == before = <<>>

\* No call of the tools is in progress.
ToolsIdle ==
    /\ TbIdle
    /\ LookupIdle
    /\ ParseIdle
    /\ FmtIdle
    /\ ProcIdle
    /\ FrameIdle

\* The reporter after __init__, before enable(): nothing stored, no thread.
ReporterInit ==
    /\ files = EmptyStore
    /\ crashes = 0
    /\ mpc = "idle"
    /\ hSmtp = FALSE
    /\ hFtp = FALSE
    /\ result = "none"
    /\ active = FALSE
    /\ watcher_enabled \in BOOLEAN
    /\ smtpCfg \in BOOLEAN
    /\ ftpCfg \in BOOLEAN
    /\ watcher = NoThread
    /\ watcher_running = FALSE
    /\ wpc = [t \in Threads |-> "none"]
    /\ wgs = [t \in Threads |-> FALSE]
    /\ got = [r \in Reports |-> {}]
    /\ failRun = 0
    /\ wDel = FALSE

Init ==
    /\ ReporterInit
    /\ HooksInit
    /\ ToolsIdle

\* -------------------------------------------------- the main thread's calls

\* A test of start_watcher that never sees the thread.
WatcherNeverSeen == FALSE

\* The test of start_watcher: "self._watcher and self._watcher.is_alive".  is_alive is
\* not called: the bound method is always true, so only self._watcher counts.
WatcherExists == watcher # NoThread

\* Thread(target=self._watcher_thread, ...): the thread object created.
NewThread == CHOOSE t \in FreeThreads : \A u \in FreeThreads : t <= u

\* The body of start_watcher.
StartWatcher ==
    IF WatcherExists
    THEN /\ watcher_running' = TRUE
         /\ UNCHANGED <<watcher, wpc, wgs>>
    ELSE /\ FreeThreads # {}
         /\ watcher' = NewThread
         /\ watcher_running' = TRUE
         /\ wpc' = [wpc EXCEPT ![NewThread] = "sleep"]
         /\ wgs' = [wgs EXCEPT ![NewThread] = FALSE]

\* The body of stop_watcher.
StopWatcher ==
    /\ watcher_running' = StopFlag
    /\ UNCHANGED <<watcher, wpc, wgs>>

\* failRun after delete_offline_reports: the store is empty; a run of failed
\* crashes can start there unless a handling is in progress.
AfterDelete == IF mpc = "idle" THEN 0 ELSE -1

\* A test of enable that never finds the reporter active.
NeverActive == FALSE

\* "if not CrashReporter.active" fails: a reporter is active.
AlreadyActive == active

enable(smtpUp, ftpSt) ==
    /\ mpc = "idle"
    /\ IF AlreadyActive
       THEN /\ noop' = TRUE
            /\ UNCHANGED <<files, active, thrVars, got, failRun, hookVars>>
       ELSE /\ active' = TRUE
            /\ saved' = [saved EXCEPT ![Self] = excepthook]
            /\ excepthook' = Self
            /\ prior' = excepthook
            /\ noop' = FALSE
            /\ IF get_offline_reports(files) = <<>>
               THEN UNCHANGED <<files, thrVars, got, failRun>>
               ELSE /\ IF AnyOf(submit_offline_reports(files, smtpUp, ftpSt))
                       THEN /\ files' = DeleteAll(files)
                            /\ failRun' = AfterDelete
                            /\ UNCHANGED thrVars
                       ELSE IF watcher_enabled
                       THEN /\ StartWatcher
                            /\ UNCHANGED <<files, failRun>>
                       ELSE UNCHANGED <<files, thrVars, failRun>>
                    /\ got' = Clean(Receive(got, StoredReports(files),
                                Accepted(submit_offline_reports(files, smtpUp, ftpSt))),
                                      files')
    /\ UNCHANGED <<mainVars, cfgVars, wDel, toolVars>>

disable ==
    /\ mpc = "idle"
    /\ IF active
       THEN /\ active' = FALSE
            /\ excepthook' = saved[Self]
            /\ StopWatcher
            /\ UNCHANGED <<saved, prior>>
       ELSE UNCHANGED <<active, thrVars, hookVars>>
    /\ noop' = FALSE
    /\ UNCHANGED <<files, mainVars, cfgVars, got, failRun, wDel, toolVars>>

\* enable() of another instance: its report directory is empty.
other_enable(j) ==
    /\ mpc = "idle"
    /\ IF AlreadyActive
       THEN UNCHANGED <<active, hookVars>>
       ELSE /\ active' = TRUE
            /\ saved' = [saved EXCEPT ![j] = excepthook]
            /\ excepthook' = j
            /\ prior' = excepthook
    /\ noop' = FALSE
    /\ UNCHANGED <<files, mainVars, cfgVars, thrVars, got, failRun, wDel, toolVars>>

\* disable() of another instance: it has no watcher thread to stop.
other_disable(j) ==
    /\ mpc = "idle"
    /\ IF active
       THEN /\ active' = FALSE
            /\ excepthook' = saved[j]
            /\ UNCHANGED <<saved, prior>>
       ELSE UNCHANGED <<active, hookVars>>
    /\ noop' = FALSE
    /\ UNCHANGED <<files, mainVars, cfgVars, thrVars, got, failRun, wDel, toolVars>>

start_watcher ==
    /\ mpc = "idle"
    /\ StartWatcher
    /\ noop' = FALSE
    /\ UNCHANGED <<files, mainVars, active, cfgVars, got, failRun, wDel,
                   hookVars, toolVars>>

stop_watcher ==
    /\ mpc = "idle"
    /\ StopWatcher
    /\ noop' = FALSE
    /\ UNCHANGED <<files, mainVars, active, cfgVars, got, failRun, wDel,
                   hookVars, toolVars>>

setup_smtp ==
    /\ mpc = "idle"
    /\ smtpCfg' = TRUE
    /\ noop' = FALSE
    /\ UNCHANGED <<files, mainVars, active, watcher_enabled, ftpCfg,
                   thrVars, got, failRun, wDel, hookVars, toolVars>>

setup_ftp ==
    /\ mpc = "idle"
    /\ ftpCfg' = TRUE
    /\ noop' = FALSE
    /\ UNCHANGED <<files, mainVars, active, watcher_enabled, smtpCfg,
                   thrVars, got, failRun, wDel, hookVars, toolVars>>

\* ------------------------------------------------------- exception_handler

\* The handler ends by raising: what it left in the store stays, the default hook
\* is not called.
Raise ==
    /\ mpc' = "idle"
    /\ result' = "raised"
    /\ wDel' = FALSE

\* exception_handler(etype, evalue, tb) is entered.  Inactive, or without an
\* exception type, it only calls the default hook.  Active, it calls
\* analyze_traceback(tb), which raises when the source of a frame cannot be read
\* (srcOk false).
handler_begin(etype, srcOk) ==
    /\ mpc = "idle"
    /\ IF active /\ etype
       THEN IF srcOk
            THEN /\ crashes < MaxCrash
                 /\ crashes' = crashes + 1
                 /\ mpc' = "save"
                 /\ result' = "none"
                 /\ hSmtp' = FALSE
                 /\ hFtp' = FALSE
            ELSE /\ result' = "raised"
                 /\ UNCHANGED <<crashes, mpc, hSmtp, hFtp>>
       ELSE /\ result' = "hooked"
            /\ UNCHANGED <<crashes, mpc, hSmtp, hFtp>>
    /\ noop' = FALSE
    /\ UNCHANGED <<files, active, cfgVars, thrVars, got, failRun, wDel,
                   hookVars, toolVars>>

\* _save_report, the renumbering of the stored reports.
save_report_shift ==
    /\ mpc = "save"
    /\ files' = ShiftStore(files)
    /\ IF ShiftRaises(files)
       THEN /\ Raise
            /\ failRun' = -1
       ELSE /\ mpc' = "write"
            /\ UNCHANGED <<result, failRun, wDel>>
    /\ got' = Clean(got, files')
    /\ UNCHANGED <<crashes, hSmtp, hFtp, active, cfgVars, thrVars>>
    /\ UNCHANGED <<hookVars, noop, toolVars>>

\* _save_report, the writing of the new report; it returns new_report_path.
save_report_write ==
    /\ mpc = "write"
    /\ files' = WriteNew(files, crashes)
    /\ mpc' = "smtp"
    /\ UNCHANGED <<crashes, hSmtp, hFtp, result, active, cfgVars, thrVars,
                   got, failRun, wDel>>
    /\ UNCHANGED <<hookVars, noop, toolVars>>

\* open(report_path) raises when the file is gone.
ReportGone == files[1] = NoFile

\* A handling that ends with the report left in the store counts as a failed one.
AfterFailure == IF failRun >= 0 /\ ~wDel THEN failRun + 1 ELSE -1

\* "if self._smtp is not None": read the report and _sendmail it.
handler_smtp(smtpUp) ==
    /\ mpc = "smtp"
    /\ IF ~smtpCfg
       THEN /\ mpc' = "ftp"
            /\ UNCHANGED <<hSmtp, result, got, failRun, wDel>>
       ELSE IF ReportGone
       THEN /\ Raise
            /\ failRun' = -1
            /\ UNCHANGED <<hSmtp, got>>
       ELSE /\ hSmtp' = sendmail(smtpUp)
            /\ got' = IF sendmail(smtpUp) THEN Receive(got, {crashes}, {"smtp"}) ELSE got
            /\ mpc' = "ftp"
            /\ UNCHANGED <<result, failRun, wDel>>
    /\ UNCHANGED <<files, crashes, hFtp, active, cfgVars, thrVars>>
    /\ UNCHANGED <<hookVars, noop, toolVars>>

\* "if self._ftp is not None": _ftp_submit(report_path).  A failed connect or login
\* is caught, and stops the watcher; an error after the login is not caught.
handler_ftp(ftpSt) ==
    /\ mpc = "ftp"
    /\ IF ~ftpCfg
       THEN /\ mpc' = "finish"
            /\ UNCHANGED <<hFtp, result, thrVars, got, failRun, wDel>>
       ELSE IF ftpSt = "down"
       THEN /\ StopWatcher
            /\ hFtp' = FALSE
            /\ mpc' = "finish"
            /\ UNCHANGED <<result, got, failRun, wDel>>
       ELSE IF ftpSt = "err" \/ ReportGone
       THEN /\ Raise
            /\ failRun' = IF ReportGone THEN -1 ELSE AfterFailure
            /\ UNCHANGED <<hFtp, thrVars, got>>
       ELSE /\ hFtp' = TRUE
            /\ got' = Receive(got, {crashes}, {"ftp"})
            /\ mpc' = "finish"
            /\ UNCHANGED <<result, thrVars, failRun, wDel>>
    /\ UNCHANGED <<files, crashes, hSmtp, active, cfgVars>>
    /\ UNCHANGED <<hookVars, noop, toolVars>>

\* A great_success that wants both sinks to have succeeded.
every_success == hSmtp /\ hFtp

\* great_success of exception_handler.
great_success == hSmtp \/ hFtp

\* A removal that takes every stored report with it.
RemoveEveryReport(f) == EmptyStore

\* os.remove(report_path)
RemoveReport(f) == [f EXCEPT ![1] = NoFile]

\* An end of exception_handler that starts the watcher.
FinishStartsWatcher == StartWatcher

\* The end of exception_handler touches neither the watcher thread nor its flag.
FinishThreads == UNCHANGED thrVars

\* "if great_success: os.remove(report_path)", then sys.__excepthook__.
handler_finish ==
    /\ mpc = "finish"
    /\ IF great_success /\ ReportGone
       THEN /\ Raise
            /\ failRun' = -1
            /\ UNCHANGED files
       ELSE /\ files' = IF great_success THEN RemoveReport(files) ELSE files
            /\ failRun' = IF great_success
                          THEN (IF Stored(RemoveReport(files)) = {} THEN 0 ELSE -1)
                          ELSE AfterFailure
            /\ mpc' = "idle"
            /\ result' = "hooked"
            /\ wDel' = FALSE
    /\ FinishThreads
    /\ got' = Clean(got, files')
    /\ UNCHANGED <<crashes, hSmtp, hFtp, active, cfgVars>>
    /\ UNCHANGED <<hookVars, noop, toolVars>>

\* ---------------------------------------------------------- _watcher_thread

\* A loop that never looks at the flag.
RunsRegardless == TRUE

\* "if not self._watcher_running: break" does not break.
KeepsRunning == watcher_running

\* time.sleep(check_interval) returns; "if not self._watcher_running: break".
watcher_wake(t) ==
    /\ wpc[t] = "sleep"
    /\ wpc' = [wpc EXCEPT ![t] = IF KeepsRunning THEN "submit" ELSE "after"]
    /\ UNCHANGED <<files, mainVars, active, cfgVars, watcher,
                   watcher_running, wgs, got, failRun, wDel>>
    /\ UNCHANGED <<hookVars, noop, toolVars>>

\* great_success |= any(self.submit_offline_reports(smtp=True, ftp=True)), and the
\* test of the while loop.
watcher_submit(t, smtpUp, ftpSt) ==
    /\ wpc[t] = "submit"
    /\ wgs' = [wgs EXCEPT ![t] = wgs[t] \/ AnyOf(submit_offline_reports(files, smtpUp, ftpSt))]
    /\ wpc' = [wpc EXCEPT ![t] = IF wgs'[t] THEN "after" ELSE "sleep"]
    /\ got' = Receive(got, StoredReports(files),
                      Accepted(submit_offline_reports(files, smtpUp, ftpSt)))
    /\ UNCHANGED <<files, mainVars, active, cfgVars, watcher,
                   watcher_running, failRun, wDel>>
    /\ UNCHANGED <<hookVars, noop, toolVars>>

\* After the loop: "if great_success: self.delete_offline_reports()".
watcher_delete(t) ==
    /\ wpc[t] = "after"
    /\ wpc' = [wpc EXCEPT ![t] = "exit"]
    /\ IF wgs[t]
       THEN /\ files' = DeleteAll(files)
            /\ failRun' = AfterDelete
            /\ wDel' = (mpc # "idle")
       ELSE UNCHANGED <<files, failRun, wDel>>
    /\ got' = Clean(got, files')
    /\ UNCHANGED <<mainVars, active, cfgVars, watcher, watcher_running, wgs>>
    /\ UNCHANGED <<hookVars, noop, toolVars>>

\* "self._watcher = None"; the thread ends.
watcher_exit(t) ==
    /\ wpc[t] = "exit"
    /\ watcher' = NoThread
    /\ wpc' = [wpc EXCEPT ![t] = "none"]
    /\ wgs' = [wgs EXCEPT ![t] = FALSE]
    /\ UNCHANGED <<files, mainVars, active, cfgVars, watcher_running,
                   got, failRun, wDel>>
    /\ UNCHANGED <<hookVars, noop, toolVars>>

\* ------------------------------------------------------- the specification

Next ==
    \/ \E smtpUp \in BOOLEAN, ftpSt \in FtpStates : enable(smtpUp, ftpSt)
    \/ disable
    \/ start_watcher
    \/ stop_watcher
    \/ setup_smtp
    \/ setup_ftp
    \/ \E etype \in BOOLEAN, srcOk \in BOOLEAN : handler_begin(etype, srcOk)
    \/ save_report_shift
    \/ save_report_write
    \/ \E smtpUp \in BOOLEAN : handler_smtp(smtpUp)
    \/ \E ftpSt \in FtpStates : handler_ftp(ftpSt)
    \/ handler_finish
    \/ \E t \in Threads : watcher_wake(t)
    \/ \E t \in Threads, smtpUp \in BOOLEAN, ftpSt \in FtpStates :
          watcher_submit(t, smtpUp, ftpSt)
    \/ \E t \in Threads : watcher_delete(t)
    \/ \E t \in Threads : watcher_exit(t)

Spec == Init /\ [][Next]_vars

TypeOK ==
    /\ files \in [Ords -> 0..MaxCrash]
    /\ crashes \in 0..MaxCrash
    /\ mpc \in {"idle", "save", "write", "smtp", "ftp", "finish"}
    /\ result \in {"none", "hooked", "raised"}
    /\ watcher \in {NoThread} \cup Threads
    /\ wpc \in [Threads -> {"none", "sleep", "submit", "after", "exit"}]
    /\ wgs \in [Threads -> BOOLEAN]
    /\ got \in [Reports -> SUBSET Sinks]
    /\ failRun \in -1..MaxCrash

\* A specification of _save_report alone, from any content of the report
\* directory: any set of ordinals, any older reports, a crash in hand.
InitSave ==
    /\ files \in {f \in [Ords -> 0..(MaxCrash - 1)] : f[MaxOrd] = NoFile}
    /\ crashes = MaxCrash
    /\ mpc = "save"
    /\ hSmtp = FALSE
    /\ hFtp = FALSE
    /\ result = "none"
    /\ active = TRUE
    /\ watcher_enabled = TRUE
    /\ smtpCfg = FALSE
    /\ ftpCfg = FALSE
    /\ watcher = NoThread
    /\ watcher_running = FALSE
    /\ wpc = [t \in Threads |-> "none"]
    /\ wgs = [t \in Threads |-> FALSE]
    /\ got = [r \in Reports |-> {}]
    /\ failRun = -1
    /\ wDel = FALSE
    /\ excepthook = Self
    /\ saved = [i \in Insts |-> IF i = Self THEN DefaultHook ELSE NoHook]
    /\ prior = DefaultHook
    /\ noop = FALSE
    /\ ToolsIdle

NextSave ==
    \/ save_report_shift
    \/ save_report_write

SpecSave == InitSave /\ [][NextSave]_vars

\* ------------------------------------------------------------------ claims

Min(a, b) == IF a <= b THEN a ELSE b
Newest(f) == CHOOSE r \in StoredReports(f) : \A q \in StoredReports(f) : q <= r
AtRest == mpc = "idle"

\* C1 (capacity): after any sequence of completed crash handlings, the report
\* directory holds at most offline_report_limit report files.
C1_Capacity ==
    AtRest => Cardinality(Stored(files)) <= offline_report_limit

\* C2 (FIFO contents): after m consecutive crashes whose delivery failed, starting
\* from the empty store, the store holds exactly the min(m, limit) newest reports,
\* at the ordinals 1..min(m, limit), newest first; the older ones are deleted.
C2_Fifo ==
    (AtRest /\ failRun >= 0) =>
        \A o \in Ords :
            files[o] = IF o <= Min(failRun, offline_report_limit)
                       THEN crashes - o + 1
                       ELSE NoFile

\* More failed crashes in a row than the limit, the oldest reports deleted.
C2_Witness ==
    /\ AtRest
    /\ failRun > offline_report_limit
    /\ files[1] = crashes
    /\ files[offline_report_limit] = crashes - offline_report_limit + 1

\* C3: right after _save_report returns, whatever the store held before, the
\* file of ordinal 1 exists and holds the report just written.
C3_NewestFirst ==
    mpc = "smtp" => files[1] = crashes

\* _save_report has returned on a store that had a gap and a file above the limit.
C3_Witness ==
    /\ mpc = "smtp"
    /\ files[1] = crashes
    /\ files[2] = NoFile
    /\ \E o \in Ords : o > offline_report_limit + 1 /\ files[o] # NoFile

\* C4 (slot contiguity): between operations the ordinals of the stored reports are
\* exactly 1..N with N <= offline_report_limit, and ordinal 1 names the most
\* recently stored report still in the store.
C4_Contiguous ==
    (AtRest /\ \A t \in Threads : wpc[t] \in {"none", "sleep"}) =>
        /\ \E n \in 0..offline_report_limit : Stored(files) = 1..n
        /\ Stored(files) # {} => files[1] = Newest(files)

\* A step of exception_handler: no other operation moves the main thread.
HandlerStep == mpc' # mpc
\* exception_handler ends, by returning (result' = "hooked") or by raising.
HandlerEnds == mpc # "idle" /\ mpc' = "idle"
BothSinks == smtpCfg /\ ftpCfg

EnabledSinks == {s \in Sinks : (s = "smtp" /\ smtpCfg) \/ (s = "ftp" /\ ftpCfg)}
Removed(r) == r \in StoredReports(files) /\ r \notin StoredReports(files')
\* The renumbering of _save_report is the only step that removes by limit pressure.
LimitPressure == mpc = "save"

WatcherAccepted ==
    \E t \in Threads, smtpUp \in BOOLEAN, ftpSt \in FtpStates :
        /\ AnyOf(submit_offline_reports(files, smtpUp, ftpSt))
        /\ watcher_submit(t, smtpUp, ftpSt)

Fairness ==
    /\ WF_vars(save_report_shift)
    /\ WF_vars(save_report_write)
    /\ WF_vars(\E smtpUp \in BOOLEAN : handler_smtp(smtpUp))
    /\ WF_vars(\E ftpSt \in FtpStates : handler_ftp(ftpSt))
    /\ WF_vars(handler_finish)
    /\ WF_vars(\E t \in Threads : watcher_wake(t))
    /\ WF_vars(\E t \in Threads, smtpUp \in BOOLEAN, ftpSt \in FtpStates :
                   watcher_submit(t, smtpUp, ftpSt))
    /\ SF_vars(WatcherAccepted)
    /\ WF_vars(\E t \in Threads : watcher_delete(t))
    /\ WF_vars(\E t \in Threads : watcher_exit(t))

\* The reporter is left to itself: crashes are handled (MaxLiveCrash of them),
\* the watcher runs, and no one calls disable() or stop_watcher().
NextLive ==
    \/ \E smtpUp \in BOOLEAN, ftpSt \in FtpStates : enable(smtpUp, ftpSt)
    \/ start_watcher
    \/ setup_smtp
    \/ setup_ftp
    \/ \E etype \in BOOLEAN, srcOk \in BOOLEAN : handler_begin(etype, srcOk) /\ crashes' <= MaxLiveCrash
    \/ save_report_shift
    \/ save_report_write
    \/ \E smtpUp \in BOOLEAN : handler_smtp(smtpUp)
    \/ \E ftpSt \in FtpStates : handler_ftp(ftpSt)
    \/ handler_finish
    \/ \E t \in Threads : watcher_wake(t)
    \/ \E t \in Threads, smtpUp \in BOOLEAN, ftpSt \in FtpStates :
          watcher_submit(t, smtpUp, ftpSt)
    \/ \E t \in Threads : watcher_delete(t)
    \/ \E t \in Threads : watcher_exit(t)

SpecLive == Init /\ [][NextLive]_vars /\ Fairness

InStore(r) == r \in StoredReports(files)
\* Some sink is enabled that can accept the stored reports.
CanSubmit == smtpCfg \/ ftpCfg

C9_AtMostOneWatcher ==
    Cardinality({t \in Threads : Alive(t)}) <= 1

\* start_watcher was called while a thread was there: the thread left its loop on
\* a cleared flag, and the flag is set again.
C9_Witness ==
    /\ watcher_running
    /\ \E t \in Threads : wpc[t] = "after" /\ ~wgs[t] /\ watcher = t

\* C10 (watcher termination): a pass that leaves no report in the store is the
\* watcher's last: the thread does not go back to sleep.
C10_StopsOnEmptyStore ==
    [][\A t \in Threads :
          (wpc[t] = "submit" /\ wpc'[t] # "submit" /\ Stored(files') = {})
              => wpc'[t] # "sleep"]_vars

\* ------------------------------------------------- the hook and enable/disable

\* C11: every call of exception_handler ends by calling the default hook; none
\* ends by raising to its caller.
C11_HandlerAlwaysHooks ==
    AtRest => result # "raised"

EnableCall == \E smtpUp \in BOOLEAN, ftpSt \in FtpStates : enable(smtpUp, ftpSt)

\* C12 (enable is idempotent): enable() on an active reporter leaves the installed
\* hook, the saved hook, the active flag, the store and the watcher as they are.
C12_EnableIdempotent ==
    [][(active /\ EnableCall)
         => UNCHANGED <<excepthook, saved, active, files, thrVars>>]_vars

\* enable() was called on the active reporter, with reports stored and no watcher:
\* a first enable() would have submitted them.
C12_Witness ==
    /\ noop
    /\ active
    /\ excepthook = Self
    /\ saved[Self] = DefaultHook
    /\ Stored(files) # {}
    /\ watcher = NoThread

\* The instances of a process: each calls enable() and disable(); Self's watcher runs.
NextHook ==
    \/ \E smtpUp \in BOOLEAN, ftpSt \in FtpStates : enable(smtpUp, ftpSt)
    \/ disable
    \/ \E j \in Others : other_enable(j)
    \/ \E j \in Others : other_disable(j)
    \/ start_watcher
    \/ stop_watcher
    \/ \E t \in Threads : watcher_wake(t)
    \/ \E t \in Threads, smtpUp \in BOOLEAN, ftpSt \in FtpStates :
          watcher_submit(t, smtpUp, ftpSt)
    \/ \E t \in Threads : watcher_delete(t)
    \/ \E t \in Threads : watcher_exit(t)

SpecHook == Init /\ [][NextHook]_vars

\* C13 (disable restores the prior hook): a disable() that takes effect leaves as
\* sys.excepthook the hook that was installed before the enable() that took effect,
\* and the watcher of the disabled reporter is signalled to stop.
C13_DisableRestores ==
    [][/\ (active /\ disable)
            => /\ excepthook' = prior
               /\ watcher # NoThread => ~watcher_running'
       /\ \A j \in Others : (active /\ other_disable(j)) => excepthook' = prior]_vars

\* disable() has returned on a reporter that had been enabled.
Disabled == ~active /\ saved[Self] # NoHook

\* A pass of the watcher that submits to a sink: FTP whenever it is set up, SMTP
\* when there is a report to send.
SinkAttempt ==
    \E t \in Threads :
        /\ wpc[t] = "submit"
        /\ wpc'[t] # "submit"
        /\ ftpCfg \/ (smtpCfg /\ Stored(files) # {})

\* C14: while the reporter is disabled and the watcher's flag is off (it is, unless
\* start_watcher is called), no submission is made to a sink and the report
\* directory does not change.
C14_QuietWhileDisabled ==
    [][(Disabled /\ ~watcher_running /\ ~active')
         => (~SinkAttempt /\ files' = files)]_vars

\* C15: an enable() that takes effect on a store with reports leaves the store
\* empty (the reports were submitted), or, the submission having failed, a watcher
\* thread in its loop with its flag on when the watcher flag is on, and no new
\* thread when it is off.
C15_EnableFlushesOrWatches ==
    [][(~active /\ active' /\ Stored(files) # {})
         => \/ Stored(files') = {}
            \/ IF watcher_enabled
               THEN /\ watcher_running'
                    /\ \E t \in Threads : wpc'[t] \in {"sleep", "submit"}
               ELSE wpc' = wpc]_vars

\* ------------------------------------------------------- analyze_traceback

\* inspection_level=None, the default of analyze_traceback.
NoLevel == -1

\* The stacks: for each frame, outermost first, whether its source can be read.
Stacks == UNION {[1..n -> BOOLEAN] : n \in 1..MaxFrames}

\* An inspection test that is one frame short.
InspectOneShort(n, ii, lvl) == lvl = NoLevel \/ n - ii < lvl

\* "inspection_level is None or len(extracted_tb) - ii <= inspection_level", for
\* the frame of index ii (from 0) of n.
Inspect(n, ii, lvl) == lvl = NoLevel \/ n - ii <= lvl

\* The dict d built for frame i (from 1): "Source Code" is filled, and "Local
\* Variables" and "Object Variables" are set, when the frame is inspected.
FrameRecord(fr, lvl, i) ==
    [frame |-> i,
     source |-> Inspect(Len(fr), i - 1, lvl),
     enriched |-> Inspect(Len(fr), i - 1, lvl)]

RECURSIVE AnalyzeFrom(_, _, _, _)
\* The loop of analyze_traceback from frame i on: inspect.getsourcelines is called
\* for every frame, and raises when the source of the frame cannot be read.
AnalyzeFrom(fr, lvl, i, info) ==
    IF i > Len(fr) THEN [raised |-> FALSE, info |-> info]
    ELSE IF ~fr[i] THEN [raised |-> TRUE, info |-> info]
    ELSE AnalyzeFrom(fr, lvl, i + 1, Append(info, FrameRecord(fr, lvl, i)))

analyze_traceback(fr, lvl) == AnalyzeFrom(fr, lvl, 1, <<>>)

\* The inspection_level argument of exception_handler's call analyze_traceback(tb):
\* none is given.
HandlerLevel == NoLevel

\* A direct call analyze_traceback(tb, inspection_level=level).
analyze_call ==
    /\ tpc = "ready"
    /\ tb_info' = analyze_traceback(frames, level).info
    /\ tpc' = IF analyze_traceback(frames, level).raised THEN "raised" ELSE "returned"
    /\ UNCHANGED <<files, mainVars, active, cfgVars, thrVars, got, failRun, wDel,
                   hookVars, noop, frames, level, lookupVars, parseVars,
                   fmtVars, procVars, frameVars>>

\* exception_handler of a reporter whose inspection_level is level:
\* "self.tb_info = analyze_traceback(tb)".
handler_analyze ==
    /\ tpc = "ready"
    /\ tb_info' = analyze_traceback(frames, HandlerLevel).info
    /\ tpc' = IF analyze_traceback(frames, HandlerLevel).raised
              THEN "handler_raised" ELSE "handled"
    /\ UNCHANGED <<files, mainVars, active, cfgVars, thrVars, got, failRun, wDel,
                   hookVars, noop, frames, level, lookupVars, parseVars,
                   fmtVars, procVars, frameVars>>

\* A specification of analyze_traceback alone: any stack, any level.
InitTb ==
    /\ ReporterInit
    /\ watcher_enabled /\ ~smtpCfg /\ ~ftpCfg
    /\ HooksInit
    /\ frames \in Stacks
    /\ level \in 0..MaxLevel
    /\ tb_info = <<>>
    /\ tpc = "ready"
    /\ LookupIdle
    /\ ParseIdle
    /\ FmtIdle
    /\ ProcIdle
    /\ FrameIdle

NextTb ==
    \/ analyze_call
    \/ handler_analyze

SpecTb == InitTb /\ [][NextTb]_vars

\* The records of tb_info that are about the frames in call order, the last
\* min(level, n) of them enriched and no other.
InnermostEnriched ==
    /\ Len(tb_info) = Len(frames)
    /\ \A i \in 1..Len(tb_info) :
          /\ tb_info[i].frame = i
          /\ tb_info[i].enriched = (i > Len(frames) - Min(level, Len(frames)))

\* C16 (inspection-depth boundary): analyze_traceback(tb, inspection_level = k) on
\* n frames returns n records in call order, exactly the last min(k, n) enriched.
C16_DepthBoundary ==
    tpc = "returned" => InnermostEnriched

\* A call has returned with some frames enriched and some not.
C16_Witness ==
    /\ tpc = "returned"
    /\ level > 0
    /\ level < Len(frames)
    /\ tb_info[Len(frames)].enriched
    /\ ~tb_info[1].enriched

\* C17: the report of a crash handled by a reporter of inspection_level k has
\* only its k innermost frames enriched.
C17_HandlerDepth ==
    tpc = "handled" => InnermostEnriched

\* C18 (frame failure isolation): analyze_traceback raises nothing; a frame whose
\* source cannot be read gets an empty Source Code, every frame has its record.
C18_FrameIsolation ==
    /\ tpc # "raised"
    /\ tpc = "returned" =>
          /\ Len(tb_info) = Len(frames)
          /\ \A i \in 1..Len(frames) : ~frames[i] => ~tb_info[i].source

\* -------------------------------------------------- string_variable_lookup

DOT_LOOKUP == 0
DICT_LOOKUP == 1

\* The kinds of values: an object with attributes, a mapping (it has .get), a plain
\* value, and the kinds of the isinstance test: FunctionType, MethodType,
\* ModuleType, BuiltinMethodType / BuiltinFunctionType.  An object or a module has
\* no attribute "get".
Callables == {"function", "method", "module", "builtin"}
Kinds == {"object", "mapping", "plain"} \cup Callables

\* The sentinel: the class ValueError.
Unresolved == "ValueError"

\* What a container has for a name or a key: a value of some kind, nothing
\* ("absent"), or an attribute or key whose access raises ("raises").
Outcomes == Kinds \cup {"absent", "raises"}

\* The parsed expressions: refs[0] is always a DOT_LOOKUP, the first identifier.
RefSeqs ==
    {r \in UNION {[1..n -> {DOT_LOOKUP, DICT_LOOKUP}] : n \in 1..MaxSteps} :
        r[1] = DOT_LOOKUP}

\* A step that takes a subscript on any value for what the value has.
step_value_loose(k, lookup, out) == IF out \in Kinds THEN out ELSE Unresolved

\* The try block of the loop: getattr(scope, ref, ValueError) or
\* scope.get(ref, ValueError), any exception giving ValueError; a value that is
\* not a mapping has no .get, which raises AttributeError.
step_value(k, lookup, out) ==
    IF lookup = DOT_LOOKUP
    THEN IF out \in Kinds THEN out ELSE Unresolved
    ELSE IF k = "mapping" /\ out \in Kinds THEN out ELSE Unresolved

\* The text of an expression is a sequence of characters: letters of identifiers,
\* a letter of keys, the dot, the brackets and the quote.
Quote == "'"
Keys == {<<"k">>, <<"k", ".", "k">>}

\* The steps an expression can have after its first identifier: an attribute
\* step .b or a subscript step ['k'] with a string key.
PathSteps ==
    {[lookup |-> DOT_LOOKUP, name |-> <<"b">>]} \cup
    {[lookup |-> DICT_LOOKUP, name |-> k] : k \in Keys}

\* The expressions as written, with what the frame has for each of their steps:
\* has[1] for the first identifier in f_locals, has[i + 1] for step i on the value
\* before it.
Paths ==
    UNION {[first : {<<"a">>},
            steps : [1..n -> PathSteps],
            has : [1..(n + 1) -> Outcomes]] : n \in 0..(MaxSteps - 1)}

\* The steps the expression p stands for, the first identifier as a DOT_LOOKUP.
Intended(p) == <<[lookup |-> DOT_LOOKUP, name |-> p.first]>> \o p.steps

StepText(st) ==
    IF st.lookup = DOT_LOOKUP THEN <<".">> \o st.name
    ELSE <<"[", Quote>> \o st.name \o <<Quote, "]">>

RECURSIVE StepsText(_)
StepsText(sts) ==
    IF sts = <<>> THEN <<>> ELSE StepText(Head(sts)) \o StepsText(Tail(sts))

\* The text of the expression p, as it stands in the source line.
Text(p) == p.first \o StepsText(p.steps)

\* s.split('.') is SplitFrom(s, 1, <<>>): the pieces of s from position i on, cur
\* the piece in hand.
RECURSIVE SplitFrom(_, _, _)
SplitFrom(s, i, cur) ==
    IF i > Len(s) THEN <<cur>>
    ELSE IF s[i] = "." THEN <<cur>> \o SplitFrom(s, i + 1, <<>>)
    ELSE SplitFrom(s, i + 1, Append(cur, s[i]))

\* The first quote of ref at or after i, 0 if there is none.
RECURSIVE NextQuote(_, _)
NextQuote(ref, i) ==
    IF i > Len(ref) THEN 0
    ELSE IF ref[i] = Quote THEN i
    ELSE NextQuote(ref, i + 1)

\* dict_lookup_regex.findall(ref) is FindFrom(ref, 1); from position i: a quote that follows "[", the
\* characters up to the next quote, and "]" after that quote.
RECURSIVE FindFrom(_, _)
FindFrom(ref, i) ==
    IF i > Len(ref) THEN <<>>
    ELSE IF i > 1 /\ ref[i - 1] = "[" /\ ref[i] = Quote
    THEN LET j == NextQuote(ref, i + 1)
         IN  IF j # 0 /\ j < Len(ref) /\ ref[j + 1] = "]"
             THEN <<SubSeq(ref, i + 1, j - 1)>> \o FindFrom(ref, j + 1)
             ELSE FindFrom(ref, i + 1)
    ELSE FindFrom(ref, i + 1)

\* ref.index('[')
index(ref) == CHOOSE i \in 1..Len(ref) : ref[i] = "[" /\ \A j \in 1..(i - 1) : ref[j] # "["

\* The body of the loop over dot_refs: the refs of one piece.
PieceRefs(ref) ==
    LET dict_refs == FindFrom(ref, 1)
    IN  IF dict_refs # <<>>
        THEN <<[lookup |-> DOT_LOOKUP, name |-> SubSeq(ref, 1, index(ref) - 1)]>> \o
             [i \in 1..Len(dict_refs) |-> [lookup |-> DICT_LOOKUP, name |-> dict_refs[i]]]
        ELSE <<[lookup |-> DOT_LOOKUP, name |-> ref]>>

RECURSIVE RefsOf(_)
RefsOf(dot_refs) ==
    IF dot_refs = <<>> THEN <<>>
    ELSE PieceRefs(Head(dot_refs)) \o RefsOf(Tail(dot_refs))

\* The list refs that string_variable_lookup builds of s.
ParseRefs(s) == RefsOf(SplitFrom(s, 1, <<>>))

\* What the frame has for step i of the lookup in progress: what it has for step i
\* of the expression as written when the steps up to i are those of the expression,
\* nothing for any other name.  Any outcome when the lookup is given parsed steps.
Has(i, out) ==
    \/ path = <<>>
    \/ /\ path # <<>>
       /\ out = IF /\ i <= Len(Intended(path))
                   /\ \A j \in 1..i :
                         /\ refs[j] = Intended(path)[j].lookup
                         /\ names[j] = Intended(path)[j].name
                THEN path.has[i] ELSE "absent"

\* The loop over dot_refs of string_variable_lookup(tb, s).
lookup_parse ==
    /\ lpc = "parse"
    /\ refs' = [i \in 1..Len(ParseRefs(expr)) |-> ParseRefs(expr)[i].lookup]
    /\ names' = [i \in 1..Len(ParseRefs(expr)) |-> ParseRefs(expr)[i].name]
    /\ lpc' = "first"
    /\ UNCHANGED <<files, mainVars, active, cfgVars, thrVars, got, failRun, wDel,
                   hookVars, noop, tbVars, lscope, lpos, lhist, path, expr,
                   fmtVars, procVars, frameVars>>

\* "scope = tb.tb_frame.f_locals.get(refs[0][1], ValueError)", and the return if
\* the name is absent; no test of the kind of the value.
lookup_first(out) ==
    /\ lpc = "first"
    /\ out \in Kinds \cup {"absent"}
    /\ Has(1, out)
    /\ lscope' = IF out \in Kinds THEN out ELSE Unresolved
    /\ lpos' = 1
    /\ lhist' = <<[on |-> "locals", lookup |-> DOT_LOOKUP, out |-> out]>>
    /\ lpc' = IF out \in Kinds /\ Len(refs) > 1 THEN "step" ELSE "returned"
    /\ UNCHANGED <<files, mainVars, active, cfgVars, thrVars, got, failRun, wDel,
                   hookVars, noop, tbVars, refs, parseVars,
                   fmtVars, procVars, frameVars>>

\* One pass of the loop over refs[1:]: the step, then the return on ValueError or
\* on a value of a callable kind.
lookup_step(out) ==
    /\ lpc = "step"
    /\ Has(lpos + 1, out)
    /\ LET v == step_value(lscope, refs[lpos + 1], out)
       IN  /\ lscope' = IF v \in Callables THEN Unresolved ELSE v
           /\ lpc' = IF v = Unresolved \/ v \in Callables \/ lpos + 1 = Len(refs)
                     THEN "returned" ELSE "step"
    /\ lpos' = lpos + 1
    /\ lhist' = Append(lhist, [on |-> lscope, lookup |-> refs[lpos + 1], out |-> out])
    /\ UNCHANGED <<files, mainVars, active, cfgVars, thrVars, got, failRun, wDel,
                   hookVars, noop, tbVars, refs, parseVars,
                   fmtVars, procVars, frameVars>>

\* A specification of string_variable_lookup alone: any expression, any values.
InitLookup ==
    /\ ReporterInit
    /\ watcher_enabled /\ ~smtpCfg /\ ~ftpCfg
    /\ HooksInit
    /\ frames = <<>>
    /\ level = 0
    /\ tb_info = <<>>
    /\ tpc = "idle"
    /\ refs \in RefSeqs
    /\ lscope = "none"
    /\ lpos = 0
    /\ lpc = "first"
    /\ lhist = <<>>
    /\ ParseIdle
    /\ FmtIdle
    /\ ProcIdle
    /\ FrameIdle

NextLookup ==
    \/ \E out \in Outcomes : lookup_first(out)
    \/ \E out \in Outcomes : lookup_step(out)

SpecLookup == InitLookup /\ [][NextLookup]_vars

\* The step h of the history is a miss: the name, attribute or key is not there
\* (or its access raises), or a subscript is taken on a value that is no mapping.
Misses(h) ==
    \/ h.out \notin Kinds
    \/ h.lookup = DICT_LOOKUP /\ h.on # "mapping"

\* C19 (resolver short-circuit): as soon as a step misses, the lookup has returned
\* Unresolved, and that step is the last one applied.
C19_ShortCircuit ==
    \A i \in 1..Len(lhist) :
        Misses(lhist[i]) =>
            /\ lpc = "returned"
            /\ lscope = Unresolved
            /\ Len(lhist) = i

\* A lookup of three steps has returned at its second, a subscript on an object.
C19_Witness ==
    /\ lpc = "returned"
    /\ Len(refs) = 3
    /\ Len(lhist) = 2
    /\ lhist[2].lookup = DICT_LOOKUP
    /\ lhist[2].on = "object"
    /\ lhist[2].out = "plain"
    /\ lscope = Unresolved

\* C20 (resolver callable exclusion): when the value reached at some step, the
\* first included, is of a callable kind, the result is Unresolved.
C20_CallableExcluded ==
    (lpc = "returned" /\ \E i \in 1..Len(lhist) :
                            ~Misses(lhist[i]) /\ lhist[i].out \in Callables)
        => lscope = Unresolved

\* ------------------------------------ string_variable_lookup, from the text

\* A specification of string_variable_lookup(tb, s): any expression as written,
\* any values in the frame.
InitResolve ==
    /\ ReporterInit
    /\ watcher_enabled /\ ~smtpCfg /\ ~ftpCfg
    /\ HooksInit
    /\ TbIdle
    /\ path \in Paths
    /\ expr = Text(path)
    /\ names = <<>>
    /\ refs = <<>>
    /\ lscope = "none"
    /\ lpos = 0
    /\ lpc = "parse"
    /\ lhist = <<>>
    /\ FmtIdle
    /\ ProcIdle
    /\ FrameIdle

NextResolve ==
    \/ lookup_parse
    \/ \E out \in Outcomes : lookup_first(out)
    \/ \E out \in Outcomes : lookup_step(out)

SpecResolve == InitResolve /\ [][NextResolve]_vars

\* C21 (expression resolution): when every step of the expression as written
\* exists and none yields a callable or a module, string_variable_lookup returns
\* the value of the last step, having applied the steps of the expression in order.
\* Every step exists: the frame has a value for each, of no callable kind, and
\* each subscript is taken on a mapping.
C21_Resolves ==
    (/\ lpc = "returned"
     /\ \A i \in 1..Len(path.has) : path.has[i] \in Kinds \ Callables
     /\ \A i \in 1..Len(path.steps) :
           path.steps[i].lookup = DICT_LOOKUP => path.has[i] = "mapping") =>
        /\ lscope = path.has[Len(path.has)]
        /\ Len(lhist) = Len(Intended(path))
        /\ \A i \in 1..Len(lhist) : lhist[i].lookup = Intended(path)[i].lookup

\* ------------------------------------------------------- format_reference

\* The marker that follows a cut string.
Marker == <<" ", ".", ".", ".">>

\* The values: what repr(ref) gives, a text of up to MaxRepr characters, and the
\* length of ref if it is a list, a tuple, a set or a dict, -1 if it is none of them.
NoLength == -1
Refs ==
    [repr : UNION {[1..n -> {"x", "."}] : n \in 0..MaxRepr},
     length : {NoLength, 0, 2}]

\* '%s: %s' % ('length', length)
Annotation(n) == <<"l", "e", "n", "g", "t", "h", ":", " ", ToString(n)>>

\* ', '.join([...] + [repr(ref)]) with the length as the one additional, or
\* repr(ref) alone.
joined(ref) ==
    IF ref.length # NoLength
    THEN Annotation(ref.length) \o <<",", " ">> \o ref.repr
    ELSE ref.repr

\* A cut that keeps one character more than max_string_length.
truncate_keeps_more(v, max_string_length) ==
    IF Len(v) > max_string_length
    THEN SubSeq(v, 1, max_string_length + 1) \o Marker
    ELSE v

\* "if len(vstr) > max_string_length: vstr = vstr[:max_string_length] + ' ...'"
truncate(v, max_string_length) ==
    IF Len(v) > max_string_length
    THEN SubSeq(v, 1, max_string_length) \o Marker
    ELSE v

format_reference(ref, max_string_length) == truncate(joined(ref), max_string_length)

\* A call format_reference(ref, max_string_length).
format_call ==
    /\ fpc = "ready"
    /\ vstr' = format_reference(fref, fmax)
    /\ vout' = format_reference(fref, fmax)
    /\ fpc' = "returned"
    /\ UNCHANGED <<files, mainVars, active, cfgVars, thrVars, got, failRun, wDel,
                   hookVars, noop, tbVars, lookupVars, parseVars, fref, fmax,
                   procVars, frameVars>>

\* The truncation step once more, on the string returned.
truncate_again ==
    /\ fpc = "returned"
    /\ vstr' = truncate(vstr, fmax)
    /\ fpc' = "again"
    /\ UNCHANGED <<files, mainVars, active, cfgVars, thrVars, got, failRun, wDel,
                   hookVars, noop, tbVars, lookupVars, parseVars, fref, fmax, vout,
                   procVars, frameVars>>

\* A specification of format_reference alone: any value, any max_string_length.
InitFormat ==
    /\ ReporterInit
    /\ watcher_enabled /\ ~smtpCfg /\ ~ftpCfg
    /\ HooksInit
    /\ TbIdle
    /\ LookupIdle
    /\ ParseIdle
    /\ fref \in Refs
    /\ fmax \in 0..MaxStr
    /\ vstr = <<>>
    /\ vout = <<>>
    /\ fpc = "ready"
    /\ ProcIdle
    /\ FrameIdle

NextFormat ==
    \/ format_call
    \/ truncate_again

SpecFormat == InitFormat /\ [][NextFormat]_vars

\* C22 (truncation): the string format_reference returns is no longer than
\* max_string_length plus the marker, and the truncation step applied to it again
\* with the same max_string_length gives the same string.
C22_Truncation ==
    /\ fpc \in {"returned", "again"} => Len(vout) <= fmax + Len(Marker)
    /\ fpc = "again" => vstr = vout

\* A dict whose annotated repr was cut inside the repr, truncated once more.
C22_Witness ==
    /\ fpc = "again"
    /\ fref.length = 2
    /\ fmax > Len(Annotation(2)) + 2
    /\ Len(joined(fref)) > fmax
    /\ Len(vstr) = fmax + Len(Marker)
    /\ SubSeq(vstr, fmax + 1, Len(vstr)) = Marker

\* ------------------------------------- a file in the store that is no report

\* The content of a file that is named as a report (crashreportNN) and was not
\* written by _save_report.  The code reads no report back: it lists the files by
\* name, copies them, joins their text to the mail body, uploads and removes them.
Corrupt == MaxCrash + 1

\* A reporter that starts with such a file in its report directory, alone, under
\* an ordinal within the limit.
InitCorrupt ==
    /\ files \in {[EmptyStore EXCEPT ![o] = Corrupt] : o \in 1..offline_report_limit}
    /\ crashes = 0
    /\ mpc = "idle"
    /\ hSmtp = FALSE
    /\ hFtp = FALSE
    /\ result = "none"
    /\ active = FALSE
    /\ watcher_enabled \in BOOLEAN
    /\ smtpCfg \in BOOLEAN
    /\ ftpCfg \in BOOLEAN
    /\ watcher = NoThread
    /\ watcher_running = FALSE
    /\ wpc = [t \in Threads |-> "none"]
    /\ wgs = [t \in Threads |-> FALSE]
    /\ got = [r \in Reports |-> {}]
    /\ failRun = -1
    /\ wDel = FALSE
    /\ HooksInit
    /\ ToolsIdle

SpecCorrupt == InitCorrupt /\ [][NextLive]_vars

HasCorrupt(f) == Corrupt \in StoredReports(f)

ProcessLevel == NoLevel

\* "super(CrashReportingProcess, self).run()" returns: the target ended normally,
\* and so does run(); nothing is sent.
target_returns ==
    /\ ppc = "started"
    /\ ppc' = "returned"
    /\ UNCHANGED <<files, mainVars, active, cfgVars, thrVars, got, failRun, wDel,
                   hookVars, noop, tbVars, lookupVars, parseVars, fmtVars,
                   pipe, sent, polled, frameVars>>

\* The target raises, with the stack frames: "except Exception" catches an
\* Exception; another BaseException (SystemExit, KeyboardInterrupt) leaves run().
target_raises(isException) ==
    /\ ppc = "started"
    /\ ppc' = IF isException THEN "caught" ELSE "killed"
    /\ UNCHANGED <<files, mainVars, active, cfgVars, thrVars, got, failRun, wDel,
                   hookVars, noop, tbVars, lookupVars, parseVars, fmtVars,
                   pipe, sent, polled, frameVars>>

\* exception_handler: "analyzed_traceback = analyze_traceback(tb)", outside the
\* try block; what it raises leaves exception_handler and run().
process_analyze ==
    /\ ppc = "caught"
    /\ tb_info' = analyze_traceback(frames, ProcessLevel).info
    /\ ppc' = IF analyze_traceback(frames, ProcessLevel).raised THEN "died" ELSE "send"
    /\ UNCHANGED <<files, mainVars, active, cfgVars, thrVars, got, failRun, wDel,
                   hookVars, noop, frames, level, tpc, lookupVars, parseVars,
                   fmtVars, pipe, sent, polled, frameVars>>

\* exception_handler: self.cr_local_conn.send(...) in its try block; a send that
\* raises is logged, and run() returns normally either way.
process_send(ok) ==
    /\ ppc = "send"
    /\ ppc' = IF ok THEN "handled" ELSE "unsent"
    /\ pipe' = IF ok THEN pipe + 1 ELSE pipe
    /\ sent' = IF ok THEN sent + 1 ELSE sent
    /\ UNCHANGED <<files, mainVars, active, cfgVars, thrVars, got, failRun, wDel,
                   hookVars, noop, tbVars, lookupVars, parseVars, fmtVars,
                   polled, frameVars>>

\* The parent's CrashReporter.poll(): it returns at once, with the tuple of a
\* crash that waits in the pipe, or with nothing.
poll ==
    /\ ppc # "none"
    /\ polled' = IF pipe > 0 THEN "crash" ELSE "nothing"
    /\ pipe' = IF pipe > 0 THEN pipe - 1 ELSE pipe
    /\ UNCHANGED <<files, mainVars, active, cfgVars, thrVars, got, failRun, wDel,
                   hookVars, noop, tbVars, lookupVars, parseVars, fmtVars,
                   ppc, sent, frameVars>>

\* A specification of one CrashReportingProcess and its parent: the process has
\* been started; if its target raises, the traceback has the stack frames.
InitProc ==
    /\ ReporterInit
    /\ watcher_enabled /\ ~smtpCfg /\ ~ftpCfg
    /\ HooksInit
    /\ frames \in Stacks
    /\ level = 0
    /\ tb_info = <<>>
    /\ tpc = "idle"
    /\ LookupIdle
    /\ ParseIdle
    /\ FmtIdle
    /\ ppc = "started"
    /\ pipe = 0
    /\ sent = 0
    /\ polled = "none"
    /\ FrameIdle

NextProc ==
    \/ target_returns
    \/ \E isException \in BOOLEAN : target_raises(isException)
    \/ process_analyze
    \/ \E ok \in BOOLEAN : process_send(ok)
    \/ poll

SpecProc == InitProc /\ [][NextProc]_vars

\* C24 (multiprocess forwarding): run() ends normally whenever the target raised
\* an Exception, and then exactly one tuple has been sent unless the pipe refused
\* it; nothing is sent when the target returned normally; poll() gives a crash
\* only when one was sent.
C24_Forwarding ==
    /\ ppc # "died"
    /\ ppc = "handled" => sent = 1
    /\ ppc = "returned" => sent = 0
    /\ polled = "crash" => sent = 1

\* ------------------------------------------------------ stopping the watcher

\* The calls of the main thread with no crash handled, the watcher thread
\* scheduled fairly.
SpecStop == Init /\ [][NextHook]_vars /\ Fairness

\* C25 (cooperative cancellation): stop_watcher with a watcher thread alive
\* leaves the flag off; while the flag is off no retry pass begins; and a thread
\* alive with the flag off ends, after its sleep and the pass it is in, unless
\* the flag is set again.
C25_CooperativeCancel ==
    /\ [][(stop_watcher /\ \E t \in Threads : Alive(t)) => ~watcher_running']_vars
    /\ [][\A t \in Threads :
            (~watcher_running /\ wpc'[t] = "submit") => wpc[t] = "submit"]_vars
    /\ (~watcher_running /\ \E t \in Threads : Alive(t))
          ~> (watcher_running \/ \A t \in Threads : ~Alive(t))

\* The thread has left its loop by the flag, with no submission accepted, and the
\* flag is still off.
C25_Witness ==
    /\ ~watcher_running
    /\ \E t \in Threads : watcher = t /\ wpc[t] = "after" /\ ~wgs[t]

\* --------------------------------------- the handler and the watcher together

\* C26 (store mutations are serialized): no step of the watcher that lists,
\* submits or deletes the stored files (its submission, its
\* delete_offline_reports) falls between the renumbering and the writing of
\* _save_report, when older reports are stored and ordinal 1 is missing.
C26_Serialized ==
    [][(\E t \in Threads :
            \/ wpc[t] = "submit" /\ wpc'[t] # "submit"
            \/ wpc[t] = "after" /\ wgs[t] /\ wpc'[t] = "exit")
        => ~(mpc = "write" /\ Stored(files) # {})]_vars

\* ------------------------------------------- one handling, the store before it

\* The stores that failed handlings leave: reports under the ordinals 1..n, within
\* the limit, the newest first.
RestingStores ==
    {f \in [Ords -> 0..(MaxCrash - 1)] :
        /\ \E n \in 0..offline_report_limit : Stored(f) = 1..n
        /\ \A o, q \in Stored(f) : o < q => f[o] > f[q]}

\* A specification of one call of exception_handler by an active reporter, from
\* _save_report on, with no watcher thread: any resting store, any sinks.
InitDeliver ==
    /\ files \in RestingStores
    /\ crashes = MaxCrash
    /\ mpc = "save"
    /\ hSmtp = FALSE
    /\ hFtp = FALSE
    /\ result = "none"
    /\ active = TRUE
    /\ watcher_enabled \in BOOLEAN
    /\ smtpCfg \in BOOLEAN
    /\ ftpCfg \in BOOLEAN
    /\ watcher = NoThread
    /\ watcher_running = FALSE
    /\ wpc = [t \in Threads |-> "none"]
    /\ wgs = [t \in Threads |-> FALSE]
    /\ got = [r \in Reports |-> {}]
    /\ failRun = -1
    /\ wDel = FALSE
    /\ excepthook = Self
    /\ saved = [i \in Insts |-> IF i = Self THEN DefaultHook ELSE NoHook]
    /\ prior = DefaultHook
    /\ noop = FALSE
    /\ TbIdle
    /\ LookupIdle
    /\ ParseIdle
    /\ FmtIdle
    /\ ProcIdle
    /\ before = files

NextDeliver ==
    \/ save_report_shift
    \/ save_report_write
    \/ \E smtpUp \in BOOLEAN : handler_smtp(smtpUp)
    \/ \E ftpSt \in FtpStates : handler_ftp(ftpSt)
    \/ handler_finish

SpecDeliver == InitDeliver /\ [][NextDeliver]_vars

\* C27 (frame condition of a successful delivery): when exception_handler has
\* delivered its report, the store is what it was at the call: the same reports
\* under the same ordinals.
C27_DeliveryFrame ==
    (mpc = "idle" /\ result = "hooked" /\ (hSmtp \/ hFtp)) => files = before

\* ------------------------------------------- what delete_offline_reports removes

\* C28 (delete only what was sent): a report that delete_offline_reports removes
\* after a successful offline submission, in the watcher thread or in an enable()
\* that takes effect, has been accepted by some sink.
C28_DeleteOnlySent ==
    [][(\/ \E t \in Threads : wpc[t] = "after" /\ wgs[t] /\ wpc'[t] = "exit"
        \/ ~active /\ active')
        => \A r \in Reports : Removed(r) => got[r] # {}]_vars

\* C29 (no lost restart): when start_watcher returns, a watcher thread is in its
\* loop, to run further passes.
C29_NoLostRestart ==
    [][start_watcher => \E t \in Threads : InLoop(t)']_vars

====
